---- MODULE Spec2Model ----
(***************************************************************************)
(* simplerouter: a tree of Route nodes (path segment, middlewares, child   *)
(* routes, handler, method) is built with NewRoute / Get / ... / All, Use  *)
(* and Add, and compiled by Mount / MountAndWalk into the registrations    *)
(* made on a fresh http.ServeMux.                                          *)
(*                                                                         *)
(* Values.  A *Route is the index of its record in `nodes`; a Middleware   *)
(* and an http.HandlerFunc are opaque function values, modelled as         *)
(* positive numbers; nil is 0.  An http.Handler is modelled by what it     *)
(* does when it serves a request: the sequence of function values it       *)
(* runs, <<"mw", m>> for a middleware that does its work and then calls    *)
(* next (the tests' middlewareTracker), <<"h", h>> for a route handler.    *)
(* A []Middleware is a Go slice: a window (arr, len, cap) on a backing     *)
(* array of `heap`.  A panic ends the run (nothing in the package          *)
(* recovers), leaving the state the panicking call left behind.            *)
(***************************************************************************)
EXTENDS Naturals, Sequences, FiniteSets, TLC

VARIABLES nodes,    \* the Route records allocated so far, by *Route
          routers,  \* the ServeMuxes returned so far: each its registrations
          heap,     \* backing arrays of the slices a walk function retains
          seen,     \* what the walk function was called with, in call order
          events,   \* the most recent Mount / MountAndWalk: its steps in order
          last      \* the most recent call: op, receiver, args, result

vars == <<nodes, routers, heap, seen, events, last>>

---------------------------------------------------------------------------
(* Bounds of the model *)
MaxNodes == 3    \* routes allocated
MaxMws == 3      \* middlewares in use, over all routes
MaxArgs == 2     \* arguments of one Use or Add call
MaxDepth == 5    \* depth of the recursion of inspectRoute
MaxMounts == 2   \* SpecRemount: Mount calls
RemountNodes == 2 \* SpecRemount: routes allocated
RemountMws == 2  \* SpecRemount: middlewares in use, over all routes
MaxRootMws == 5  \* SpecShared: middlewares of the root
MaxRoutes == 2   \* SpecConstructors: routes allocated
GraphNodes == 3  \* SpecGraph: routes allocated
MaxEdges == 3    \* SpecGraph: children, over all routes

nil == 0

\* The WalkFn values of the model.  Walker keeps what it is called with.
\* Lister makes the list it shows with append(middlewares, Tag), Tag being
\* an entry of its own; it keeps nothing.  Neither writes to a Route.
Walker == 1
Lister == 2
Tag == 99

---------------------------------------------------------------------------
(* Sequences *)

Range(s) == {s[i] : i \in 1..Len(s)}

IsPrefix(s, t) == Len(s) <= Len(t) /\ SubSeq(t, 1, Len(s)) = s

RECURSIVE SumLen(_, _)
SumLen(ns, i) ==
    IF i > Len(ns) THEN 0 ELSE Len(ns[i].Middlewares) + SumLen(ns, i + 1)

---------------------------------------------------------------------------
(* Route and its constructors *)

NewRoute(path) ==
    [Path |-> path, Middlewares |-> <<>>, Routes |-> <<>>,
     Handler |-> nil, Method |-> ""]

RouteLit(handler, method) ==
    [Path |-> "", Middlewares |-> <<>>, Routes |-> <<>>,
     Handler |-> handler, Method |-> method]

Get(handler) == RouteLit(handler, "GET")
HeadAsGet(handler) == RouteLit(handler, "GET")
Head_(handler) == RouteLit(handler, "HEAD")
Post(handler) == RouteLit(handler, "POST")
Put(handler) == RouteLit(handler, "PUT")
Patch(handler) == RouteLit(handler, "PATCH")
Delete(handler) == RouteLit(handler, "DELETE")
Connect(handler) == RouteLit(handler, "CONNECT")
Options(handler) == RouteLit(handler, "OPTIONS")
Trace(handler) == RouteLit(handler, "TRACE")
All(handler) == RouteLit(handler, "")

---------------------------------------------------------------------------
(* Go slices of Middleware.  heap[a] is backing array a, as long as its    *)
(* capacity; array 0 stands for the zero-size array of an empty literal.   *)

EmptySlice == [arr |-> 0, len |-> 0, cap |-> 0]

Elems(h, s) == [i \in 1..s.len |-> h[s.arr][i]]

\* Capacity of the array append allocates when cap is too small for newLen:
\* the runtime's doubling rule below 256 elements, rounded up to the
\* allocator's size class for 8-byte elements (8, 16, 24, 32, 48, 64, ...).
GrowCap(oldCap, newLen) ==
    LET want == IF newLen > oldCap + oldCap THEN newLen ELSE oldCap + oldCap
    IN  IF want <= 4 THEN want ELSE want + (want % 2)

\* append(s, elems...): the grown slice and the heap after the call.
\* With room left in the backing array the new elements are written in
\* place, past s.len, into the array every slice on it shares.
append(h, s, elems) ==
    LET n == Len(elems)
        newLen == s.len + n
    IN  IF n = 0 THEN [heap |-> h, slice |-> s]
        ELSE IF newLen <= s.cap
        THEN [heap |-> [h EXCEPT ![s.arr] =
                            [i \in 1..s.cap |->
                                IF i > s.len /\ i <= newLen
                                THEN elems[i - s.len] ELSE @[i]]],
              slice |-> [s EXCEPT !.len = newLen]]
        ELSE LET c == GrowCap(s.cap, newLen)
                 a == [i \in 1..c |->
                          IF i <= s.len THEN h[s.arr][i]
                          ELSE IF i <= newLen THEN elems[i - s.len] ELSE nil]
             IN  [heap |-> Append(h, a),
                  slice |-> [arr |-> Len(h) + 1, len |-> newLen, cap |-> c]]

---------------------------------------------------------------------------
(* Handlers and the middleware composer *)

\* The http.Handler a HandlerFunc is: serving runs the function.
HandlerOf(handler) == << <<"h", handler>> >>

\* x(next) for a middleware x: the handler that runs x, then next.
CallMiddleware(x, next) == << <<"mw", x>> >> \o next

RECURSIVE applyLoop(_, _, _)
applyLoop(mws, i, next) ==
    IF i < 1 THEN next
    ELSE applyLoop(mws, i - 1, CallMiddleware(mws[i], next))

RECURSIVE applyLoopForward(_, _, _)
applyLoopForward(mws, i, next) ==
    IF i > Len(mws) THEN next
    ELSE applyLoopForward(mws, i + 1, CallMiddleware(mws[i], next))

applyMiddlewareForward(mws, next) == applyLoopForward(mws, 1, next)

\* applyMiddleware(mws...)(next)
applyMiddleware(mws, next) == applyLoop(mws, Len(mws), next)

---------------------------------------------------------------------------
(* The tree compiler.  st is the memory a traversal works on: the Route    *)
(* records (st.nodes), the heap, the registrations of the router being     *)
(* filled, what the walk function has kept, the steps taken; st.overflow   *)
(* is set when the recursion went deeper than MaxDepth: the goroutine's    *)
(* stack is finite, and a recursion that does not end is fatal.            *)

\* router.Handle(pattern, handler): one more registration.  The router is
\* net/http's; what it does with a pattern (parsing it, refusing one that
\* conflicts with another) is not part of this package, and the table is
\* the registrations made, in the order made.
Handle(router, pattern, handler) ==
    Append(router, [pattern |-> pattern, handler |-> handler])

\* walkFn(route, path, middlewares) for the Walker: it keeps its arguments,
\* the slice as the window it was handed; `held` notes what that window
\* showed during the call.
walkerChained(kept, h, route, path, middlewares) ==
    Append(kept, [route |-> route, path |-> path \o nodes[route].Path,
                  middlewares |-> middlewares,
                  held |-> Elems(h, middlewares) \o nodes[route].Middlewares])

walker(kept, h, route, path, middlewares) ==
    Append(kept, [route |-> route, path |-> path, middlewares |-> middlewares,
                  held |-> Elems(h, middlewares)])

\* walkFn(route, path, middlewares) for the Lister: append(middlewares, Tag);
\* the heap after the call.
lister(h, middlewares) == append(h, middlewares, <<Tag>>).heap

\* if walkFn != nil { walkFn(r, path, middlewares) }
callWalkFn(walkFn, s, r, path, middlewares) ==
    IF walkFn = nil THEN s
    ELSE IF walkFn = Walker
    THEN [s EXCEPT !.seen = walker(@, s.heap, r, path, middlewares),
                   !.events = Append(@, <<"walk", r>>)]
    ELSE [s EXCEPT !.heap = lister(@, middlewares),
                   !.events = Append(@, <<"walk", r>>)]

\* chainedPath := path + r.Path
chainPathSlash(path, r) == path \o "/" \o nodes[r].Path

chainPath(path, r) == path \o nodes[r].Path

\* chainedMiddleware := append(middlewares, r.Middlewares...)
chainMiddlewareOwnFirst(h, middlewares, r) ==
    append(h, EmptySlice, nodes[r].Middlewares \o Elems(h, middlewares))

chainMiddleware(h, middlewares, r) ==
    append(h, middlewares, nodes[r].Middlewares)

\* if r.Handler != nil { router.Handle(r.Method+" "+chainedPath, ...) }
registerHandlerAlways(router, r, chainedPath, mws) ==
    Handle(router, nodes[r].Method \o " " \o chainedPath,
           applyMiddleware(mws, HandlerOf(nodes[r].Handler)))

registerHandlerBarePath(router, r, chainedPath, mws) ==
    IF nodes[r].Handler # nil
    THEN Handle(router,
                IF nodes[r].Method = "" THEN chainedPath
                ELSE nodes[r].Method \o " " \o chainedPath,
                applyMiddleware(mws, HandlerOf(nodes[r].Handler)))
    ELSE router

registerHandler(router, r, chainedPath, mws) ==
    IF nodes[r].Handler # nil
    THEN Handle(router, nodes[r].Method \o " " \o chainedPath,
                applyMiddleware(mws, HandlerOf(nodes[r].Handler)))
    ELSE router

RECURSIVE inspectRoute(_, _, _, _, _, _)
RECURSIVE inspectRoutes(_, _, _, _, _, _, _)
RECURSIVE inspectRoutesStoring(_, _, _, _, _, _, _)
RECURSIVE inspectRoutesBackward(_, _, _, _, _, _, _)
RECURSIVE inspectRoutesTwice(_, _, _, _, _, _, _)

\* The loop, storing on each child its whole path before descending.
inspectRoutesStoring(routes, i, chainedPath, chainedMiddleware, walkFn, st, depth) ==
    IF i > Len(routes) \/ st.overflow THEN st
    ELSE inspectRoutesStoring(routes, i + 1, chainedPath, chainedMiddleware,
             walkFn,
             inspectRoute(routes[i], chainedPath, chainedMiddleware, walkFn,
                          [st EXCEPT !.nodes[routes[i]].Path = chainedPath \o @],
                          depth + 1),
             depth)

\* The loop, from the last child to the first.
inspectRoutesBackward(routes, i, chainedPath, chainedMiddleware, walkFn, st, depth) ==
    IF i > Len(routes) \/ st.overflow THEN st
    ELSE inspectRoutesBackward(routes, i + 1, chainedPath, chainedMiddleware,
             walkFn,
             inspectRoute(routes[Len(routes) + 1 - i], chainedPath,
                          chainedMiddleware, walkFn, st, depth + 1),
             depth)

\* The loop, descending into each child twice.
inspectRoutesTwice(routes, i, chainedPath, chainedMiddleware, walkFn, st, depth) ==
    IF i > Len(routes) \/ st.overflow THEN st
    ELSE inspectRoutesTwice(routes, i + 1, chainedPath, chainedMiddleware,
             walkFn,
             inspectRoute(routes[i], chainedPath, chainedMiddleware, walkFn,
                 inspectRoute(routes[i], chainedPath, chainedMiddleware,
                              walkFn, st, depth + 1),
                 depth + 1),
             depth)

\* for _, route := range r.Routes { route.inspectRoute(...) }, from index i
inspectRoutes(routes, i, chainedPath, chainedMiddleware, walkFn, st, depth) ==
    IF i > Len(routes) \/ st.overflow THEN st
    ELSE inspectRoutes(routes, i + 1, chainedPath, chainedMiddleware, walkFn,
             inspectRoute(routes[i], chainedPath, chainedMiddleware, walkFn,
                          st, depth + 1),
             depth)

inspectRoute(r, path, middlewares, walkFn, st, depth) ==
    IF depth > MaxDepth THEN [st EXCEPT !.overflow = TRUE]
    ELSE
    LET chainedPath == chainPath(path, r)
        ap == chainMiddleware(st.heap, middlewares, r)
        chainedMiddleware == ap.slice
        s1 == [st EXCEPT !.heap = ap.heap,
                         !.events = Append(@, <<"visit", r>>)]
        s2 == callWalkFn(walkFn, s1, r, path, middlewares)
        router == registerHandler(s2.router, r, chainedPath,
                                  Elems(s2.heap, chainedMiddleware))
        s3 == [s2 EXCEPT !.router = router,
                         !.events = IF Len(router) > Len(s2.router)
                                    THEN Append(@, <<"handle", r>>) ELSE @]
    IN  inspectRoutes(nodes[r].Routes, 1, chainedPath, chainedMiddleware,
                      walkFn, s3, depth)

\* http.NewServeMux(): the routers with a new, empty one at the end.
DefaultServeMux(rs) == IF rs = <<>> THEN << <<>> >> ELSE rs

NewServeMux(rs) == Append(rs, <<>>)

---------------------------------------------------------------------------
(* The calls *)

Call(op, recv, args, ret, panicked) ==
    [op |-> op, recv |-> recv, args |-> args, ret |-> ret,
     panicked |-> panicked]

Running == ~last.panicked

HasNil(s) == \E i \in 1..Len(s) : s[i] = nil

\* A constructor call: a new Route is allocated and its pointer returned.
Construct(op, route) ==
    /\ Running
    /\ nodes' = Append(nodes, route)
    /\ last' = Call(op, nil, <<>>, Len(nodes) + 1, FALSE)
    /\ UNCHANGED <<routers, heap, seen, events>>

\* The arguments before the first nil.
BeforeNil(s) ==
    SubSeq(s, 1, (CHOOSE i \in 1..Len(s) :
                    s[i] = nil /\ \A j \in 1..(i - 1) : s[j] # nil) - 1)

\* r.Use(middlewares...)
UsePartial(r, middlewares) ==
    /\ Running
    /\ IF HasNil(middlewares)
       THEN /\ nodes' = [nodes EXCEPT
                            ![r].Middlewares = @ \o BeforeNil(middlewares)]
            /\ last' = Call("Use", r, middlewares, nil, TRUE)
       ELSE /\ nodes' = [nodes EXCEPT ![r].Middlewares = @ \o middlewares]
            /\ last' = Call("Use", r, middlewares, r, FALSE)
    /\ UNCHANGED <<routers, heap, seen, events>>

UsePrepend(r, middlewares) ==
    /\ Running
    /\ IF HasNil(middlewares)
       THEN /\ nodes' = nodes
            /\ last' = Call("Use", r, middlewares, nil, TRUE)
       ELSE /\ nodes' = [nodes EXCEPT ![r].Middlewares = middlewares \o @]
            /\ last' = Call("Use", r, middlewares, r, FALSE)
    /\ UNCHANGED <<routers, heap, seen, events>>

Use(r, middlewares) ==
    /\ Running
    /\ IF HasNil(middlewares)
       THEN /\ nodes' = nodes
            /\ last' = Call("Use", r, middlewares, nil, TRUE)
       ELSE /\ nodes' = [nodes EXCEPT ![r].Middlewares = @ \o middlewares]
            /\ last' = Call("Use", r, middlewares, r, FALSE)
    /\ UNCHANGED <<routers, heap, seen, events>>

\* r.Add(routes...)
AddPartial(r, routes) ==
    /\ Running
    /\ IF HasNil(routes)
       THEN /\ nodes' = [nodes EXCEPT ![r].Routes = @ \o BeforeNil(routes)]
            /\ last' = Call("Add", r, routes, nil, TRUE)
       ELSE /\ nodes' = [nodes EXCEPT ![r].Routes = @ \o routes]
            /\ last' = Call("Add", r, routes, r, FALSE)
    /\ UNCHANGED <<routers, heap, seen, events>>

Add(r, routes) ==
    /\ Running
    /\ IF HasNil(routes)
       THEN /\ nodes' = nodes
            /\ last' = Call("Add", r, routes, nil, TRUE)
       ELSE /\ nodes' = [nodes EXCEPT ![r].Routes = @ \o routes]
            /\ last' = Call("Add", r, routes, r, FALSE)
    /\ UNCHANGED <<routers, heap, seen, events>>

StartState(router) ==
    [nodes |-> nodes, heap |-> heap, router |-> router, seen |-> seen,
     events |-> <<>>, overflow |-> FALSE]

\* r.Mount().  The arrays the traversal allocated are garbage once it has
\* returned (no composed handler refers to them), so heap is left as it was.
Mount(r) ==
    /\ Running
    /\ LET rs == NewServeMux(routers)
           id == Len(rs)
           st == inspectRoute(r, "", EmptySlice, nil, StartState(rs[id]), 1)
       IN  /\ routers' = [rs EXCEPT ![id] = st.router]
           /\ events' = st.events
           /\ nodes' = st.nodes
           /\ last' = Call("Mount", r, <<>>, id, st.overflow)
    /\ UNCHANGED <<heap, seen>>

\* r.MountAndWalk(walkFn)
MountAndWalkLateCheck(r, walkFn) ==
    /\ Running
    /\ LET rs == NewServeMux(routers)
           id == Len(rs)
           st == inspectRoute(r, "", EmptySlice, walkFn, StartState(rs[id]), 1)
       IN  /\ routers' = [rs EXCEPT ![id] = st.router]
           /\ heap' = st.heap
           /\ seen' = st.seen
           /\ events' = st.events
           /\ last' = IF walkFn = nil
                      THEN Call("MountAndWalk", r, <<walkFn>>, nil, TRUE)
                      ELSE Call("MountAndWalk", r, <<walkFn>>, id, st.overflow)
    /\ UNCHANGED nodes

MountAndWalk(r, walkFn) ==
    /\ Running
    /\ IF walkFn = nil
       THEN /\ last' = Call("MountAndWalk", r, <<walkFn>>, nil, TRUE)
            /\ UNCHANGED <<nodes, routers, heap, seen, events>>
       ELSE LET rs == NewServeMux(routers)
                id == Len(rs)
                st == inspectRoute(r, "", EmptySlice, walkFn,
                                   StartState(rs[id]), 1)
            IN  /\ routers' = [rs EXCEPT ![id] = st.router]
                /\ heap' = st.heap
                /\ seen' = st.seen
                /\ events' = st.events
                /\ nodes' = st.nodes
                /\ last' = Call("MountAndWalk", r, <<walkFn>>, id, st.overflow)

---------------------------------------------------------------------------
(* Inputs of the calls *)

Ids == 1..Len(nodes)

\* The parent of c, or nil.
ParentOf(c) ==
    IF \E p \in Ids : c \in Range(nodes[p].Routes)
    THEN CHOOSE p \in Ids : c \in Range(nodes[p].Routes)
    ELSE nil

Roots == {c \in Ids : ParentOf(c) = nil}

\* The middleware function handed to route r as its k-th: a function no
\* other route, and no other position, has.
Mw(r, k) == r * 10 + k

\* Middleware arguments for r: from `least` to `most` of them, each a
\* function of its own, numbered on from position k of r's list; with
\* nils, a nil may stand at any position.
RECURSIVE MwArgs(_, _, _, _)
MwArgs(n, r, k, nils) ==
    IF n = 0 THEN {<<>>}
    ELSE {<<>>} \cup {<<Mw(r, k)>> \o t : t \in MwArgs(n - 1, r, k + 1, nils)}
                \cup IF nils
                     THEN {<<nil>> \o t : t \in MwArgs(n - 1, r, k, nils)}
                     ELSE {}

Valid(s) == {i \in 1..Len(s) : s[i] # nil}

UseArgs(r, least, most, maxMws, nils) ==
    {a \in MwArgs(most, r, Len(nodes[r].Middlewares) + 1, nils) :
        /\ Len(a) >= least
        /\ SumLen(nodes, 1) + Cardinality(Valid(a)) <= maxMws}

\* Child arguments, as the nested builder expressions of the examples
\* give them: routes allocated after r that have no parent yet, in the
\* order of their allocation and after the children r already has; with
\* nils, a nil may stand at any position.
RECURSIVE RouteArgs(_, _, _)
RouteArgs(k, free, nils) ==
    IF k = 0 THEN {<<>>}
    ELSE {<<>>}
         \cup UNION {{<<c>> \o t :
                         t \in RouteArgs(k - 1, {d \in free : d > c}, nils)}
                     : c \in free}
         \cup IF nils
              THEN {<<nil>> \o t : t \in RouteArgs(k - 1, free, nils)}
              ELSE {}

AddArgs(r, least, most, nils) ==
    LET free == {c \in Roots :
                    /\ c > r
                    /\ \A i \in 1..Len(nodes[r].Routes) : c > nodes[r].Routes[i]}
    IN  {a \in RouteArgs(most, free, nils) : Len(a) >= least}

\* No Mount or MountAndWalk has returned yet.
Building == routers = <<>>

---------------------------------------------------------------------------
(* Spec: trees with middlewares are built, then mounted *)

Init ==
    /\ nodes = <<>>
    /\ routers = <<>>
    /\ heap = <<>>
    /\ seen = <<>>
    /\ events = <<>>
    /\ last = Call("none", nil, <<>>, nil, FALSE)

CallNewRoute ==
    /\ Building /\ Len(nodes) < MaxNodes
    /\ Construct("NewRoute", NewRoute("/api"))

CallGet ==
    /\ Building /\ Len(nodes) < MaxNodes
    /\ Construct("Get", Get(Len(nodes) + 1))

CallUse ==
    /\ Building
    /\ \E r \in Ids : \E middlewares \in UseArgs(r, 1, MaxArgs, MaxMws, FALSE) :
          Use(r, middlewares)

CallAdd ==
    /\ Building
    /\ \E r \in Ids : \E routes \in AddArgs(r, 1, MaxArgs, FALSE) :
          Add(r, routes)

CallMount ==
    /\ Building
    /\ \E r \in Roots : Mount(r)

CallMountAndWalk ==
    /\ Building
    /\ \E r \in Roots : \E walkFn \in {nil, Walker} : MountAndWalk(r, walkFn)

Next ==
    \/ CallNewRoute
    \/ CallGet
    \/ CallUse
    \/ CallAdd
    \/ CallMount
    \/ CallMountAndWalk

Spec == Init /\ [][Next]_vars

---------------------------------------------------------------------------
(* SpecPaths: trees of routes with any of two path segments, with GET or   *)
(* any-method routes, with and without handlers, are built, then mounted   *)

Paths == {"/api", "foo"}

\* A handler argument: nil, or a function no other route has.
Handlers == {nil, Len(nodes) + 1}

PathsNewRoute ==
    /\ Building /\ Len(nodes) < MaxNodes
    /\ \E path \in Paths : Construct("NewRoute", NewRoute(path))

PathsGet ==
    /\ Building /\ Len(nodes) < MaxNodes
    /\ \E handler \in Handlers : Construct("Get", Get(handler))

PathsAll ==
    /\ Building /\ Len(nodes) < MaxNodes
    /\ \E handler \in Handlers : Construct("All", All(handler))

PathsNext ==
    \/ PathsNewRoute
    \/ PathsGet
    \/ PathsAll
    \/ CallAdd
    \/ CallMount
    \/ CallMountAndWalk

SpecPaths == Init /\ [][PathsNext]_vars

---------------------------------------------------------------------------
(* SpecConstructors: routes are allocated with each of the constructors,   *)
(* NewRoute with either path, the others with a handler or with nil        *)

\* A constructor call, its argument noted: a new Route is allocated and
\* its pointer returned.
ConstructWith(op, arg, route) ==
    /\ Len(nodes) < MaxRoutes
    /\ Running
    /\ nodes' = Append(nodes, route)
    /\ last' = Call(op, nil, <<arg>>, Len(nodes) + 1, FALSE)
    /\ UNCHANGED <<routers, heap, seen, events>>

ConsNewRoute == \E path \in Paths : ConstructWith("NewRoute", path, NewRoute(path))
ConsGet == \E handler \in Handlers : ConstructWith("Get", handler, Get(handler))
ConsHead == \E handler \in Handlers : ConstructWith("Head", handler, Head_(handler))
ConsPost == \E handler \in Handlers : ConstructWith("Post", handler, Post(handler))
ConsPut == \E handler \in Handlers : ConstructWith("Put", handler, Put(handler))
ConsPatch == \E handler \in Handlers : ConstructWith("Patch", handler, Patch(handler))
ConsDelete == \E handler \in Handlers : ConstructWith("Delete", handler, Delete(handler))
ConsConnect == \E handler \in Handlers : ConstructWith("Connect", handler, Connect(handler))
ConsOptions == \E handler \in Handlers : ConstructWith("Options", handler, Options(handler))
ConsTrace == \E handler \in Handlers : ConstructWith("Trace", handler, Trace(handler))
ConsAll == \E handler \in Handlers : ConstructWith("All", handler, All(handler))

ConstructorsNext ==
    \/ ConsNewRoute
    \/ ConsGet
    \/ ConsHead
    \/ ConsPost
    \/ ConsPut
    \/ ConsPatch
    \/ ConsDelete
    \/ ConsConnect
    \/ ConsOptions
    \/ ConsTrace
    \/ ConsAll

SpecConstructors == Init /\ [][ConstructorsNext]_vars

---------------------------------------------------------------------------
(* SpecGraph: routes are allocated with NewRoute and Add is called with    *)
(* any routes there are, the receiver, its ancestors and routes that       *)
(* already have a parent included, as Add accepts them; then any route is  *)
(* mounted.  No route has a handler: the router is handed nothing.         *)

\* The sequences over set s of length 1 to n.
RECURSIVE SeqsUpTo(_, _)
SeqsUpTo(s, n) ==
    IF n = 0 THEN {}
    ELSE {<<c>> : c \in s}
         \cup {<<c>> \o t : c \in s, t \in SeqsUpTo(s, n - 1)}

RECURSIVE SumRoutes(_, _)
SumRoutes(ns, i) ==
    IF i > Len(ns) THEN 0 ELSE Len(ns[i].Routes) + SumRoutes(ns, i + 1)

GraphNewRoute ==
    /\ Building /\ Len(nodes) < GraphNodes
    /\ Construct("NewRoute", NewRoute("/api"))

GraphAdd ==
    /\ Building
    /\ \E r \in Ids : \E routes \in SeqsUpTo(Ids, MaxArgs) :
          /\ SumRoutes(nodes, 1) + Len(routes) <= MaxEdges
          /\ Add(r, routes)

GraphMount ==
    /\ Building
    /\ \E r \in Ids : Mount(r)

GraphNext ==
    \/ GraphNewRoute
    \/ GraphAdd
    \/ GraphMount

SpecGraph == Init /\ [][GraphNext]_vars

---------------------------------------------------------------------------
(* SpecBuild: routes are allocated with NewRoute and built up; Use and Add *)
(* are also called with no argument and with nil among their arguments     *)

BuildUse ==
    \E r \in Ids : \E middlewares \in UseArgs(r, 0, MaxArgs, MaxMws, TRUE) :
        Use(r, middlewares)

BuildAdd ==
    \E r \in Ids : \E routes \in AddArgs(r, 0, MaxArgs, TRUE) :
        Add(r, routes)

BuildNext ==
    \/ CallNewRoute
    \/ BuildUse
    \/ BuildAdd

SpecBuild == Init /\ [][BuildNext]_vars

---------------------------------------------------------------------------
(* SpecRemount: a tree is built, its first route is mounted, the tree is   *)
(* built further, and the route is mounted again                           *)

RemountNewRoute ==
    /\ Len(nodes) < RemountNodes
    /\ Construct("NewRoute", NewRoute("/api"))

RemountGet ==
    /\ Len(nodes) < RemountNodes
    /\ Construct("Get", Get(Len(nodes) + 1))

RemountUse ==
    \E r \in Ids : \E middlewares \in UseArgs(r, 1, MaxArgs, RemountMws, FALSE) :
        Use(r, middlewares)

RemountAdd ==
    \E r \in Ids : \E routes \in AddArgs(r, 1, MaxArgs, FALSE) :
        Add(r, routes)

RemountMount ==
    /\ Len(routers) < MaxMounts
    /\ \E r \in Ids \cap {1} : Mount(r)

RemountNext ==
    \/ RemountNewRoute
    \/ RemountGet
    \/ RemountUse
    \/ RemountAdd
    \/ RemountMount

SpecRemount == Init /\ [][RemountNext]_vars

---------------------------------------------------------------------------
(* SpecShared: the tree root.Add(x.Add(z), y) is mounted, the root with up *)
(* to MaxRootMws middlewares and x, y, z with none or one each: with five  *)
(* at the root, the slices chained for x and for y are windows on one      *)
(* backing array                                                           *)

\* The first k middlewares of route r.
MwList(r, k) == [i \in 1..k |-> Mw(r, i)]

SharedTree(k, a, b, c) ==
    << [NewRoute("/api") EXCEPT !.Middlewares = MwList(1, k), !.Routes = <<2, 3>>],
       [Get(2) EXCEPT !.Middlewares = MwList(2, a), !.Routes = <<4>>],
       [Get(3) EXCEPT !.Middlewares = MwList(3, b)],
       [Get(4) EXCEPT !.Middlewares = MwList(4, c)] >>

SharedInit ==
    /\ \E k \in 0..MaxRootMws : \E a, b, c \in 0..1 :
          nodes = SharedTree(k, a, b, c)
    /\ routers = <<>>
    /\ heap = <<>>
    /\ seen = <<>>
    /\ events = <<>>
    /\ last = Call("Add", 1, <<2, 3>>, 1, FALSE)

SharedNext ==
    \/ CallMount
    \/ CallMountAndWalk

SpecShared == SharedInit /\ [][SharedNext]_vars

\* SpecChain: the trees of Spec and the trees of SpecShared, built on (as
\* far as the bounds of Spec allow) and mounted.
ChainInit == Init \/ SharedInit

SpecChain == ChainInit /\ [][Next]_vars

\* SpecFrame: as SpecChain, and the walk function may be the Lister.
CallMountAndList ==
    /\ Building
    /\ \E r \in Roots : MountAndWalk(r, Lister)

FrameNext ==
    \/ CallNewRoute
    \/ CallGet
    \/ CallUse
    \/ CallAdd
    \/ CallMount
    \/ CallMountAndWalk
    \/ CallMountAndList

SpecFrame == ChainInit /\ [][FrameNext]_vars

---------------------------------------------------------------------------
(* SpecWalk: the trees of SpecShared are mounted up to MaxMounts times,    *)
(* with and without a walk function                                        *)

WalkMount ==
    /\ Len(routers) < MaxMounts
    /\ \E r \in Roots : Mount(r)

WalkMountAndWalk ==
    /\ Len(routers) < MaxMounts
    /\ \E r \in Roots : \E walkFn \in {nil, Walker, Lister} :
          MountAndWalk(r, walkFn)

WalkNext ==
    \/ WalkMount
    \/ WalkMountAndWalk

SpecWalk == SharedInit /\ [][WalkNext]_vars

---------------------------------------------------------------------------
(* What a returned router is compared with *)

\* The most recent call was a Mount or MountAndWalk, and it returned.
Returned == last.op \in {"Mount", "MountAndWalk"} /\ ~last.panicked

IsHandle(e) == e[1] = "handle"

\* The routes the most recent traversal registered, in registration order.
Handled == SelectSeq(events, IsHandle)

\* What a handler runs that was composed from mws around handler h, if the
\* order of mws is the order of execution.
Ran(mws, h) ==
    [i \in 1..(Len(mws) + 1) |->
        IF i <= Len(mws) THEN <<"mw", mws[i]>> ELSE <<"h", h>>]

\* The middleware lists of the routes on the way from root down to n, root
\* first, each list as it stands.
RECURSIVE PathMws(_, _)
PathMws(root, n) ==
    IF n = root THEN nodes[n].Middlewares
    ELSE PathMws(root, ParentOf(n)) \o nodes[n].Middlewares

\* The path segments of the routes on the way from root down to n, root
\* first, written one after the other.
RECURSIVE PathTo(_, _)
PathTo(root, n) ==
    IF n = root THEN nodes[n].Path
    ELSE PathTo(root, ParentOf(n)) \o nodes[n].Path

\* n is root or below it.
RECURSIVE IsUnder(_, _)
IsUnder(root, n) ==
    \/ n = root
    \/ ParentOf(n) # nil /\ IsUnder(root, ParentOf(n))

---------------------------------------------------------------------------
(* Claims on Spec and SpecChain *)

\* C1: the handler composed for a route ends by running the route's own
\* middlewares in the order Use was given them, first to last, and then the
\* route's handler; for the mounted root, which has nothing above it, that
\* is all it runs, and with no middlewares it runs just the handler.
C1_UseOrderIsExecutionOrder ==
    Returned =>
        \A i \in 1..Len(Handled) :
            LET n == Handled[i][2]
                own == nodes[n].Middlewares
                run == routers[last.ret][i].handler
            IN  /\ Len(run) >= Len(own) + 1
                /\ SubSeq(run, Len(run) - Len(own), Len(run))
                       = Ran(own, nodes[n].Handler)
                /\ n = last.recv => run = Ran(own, nodes[n].Handler)

\* A root with a handler and two middlewares of its own has been mounted.
C1_Witness ==
    /\ Returned
    /\ nodes[last.recv].Handler # nil
    /\ Len(nodes[last.recv].Middlewares) >= 2
    /\ Len(routers[last.ret]) >= 1

\* C2: each registered handler runs exactly the middlewares of the routes on
\* the way from the mounted root down to its route, root's first and the
\* route's own last, each list in its own order, and then the handler.
C2_ChainIsRootToNodeConcat ==
    Returned =>
        /\ Len(routers[last.ret]) = Len(Handled)
        /\ \A i \in 1..Len(Handled) :
              LET n == Handled[i][2]
              IN  routers[last.ret][i].handler
                      = Ran(PathMws(last.recv, n), nodes[n].Handler)

\* A root with five middlewares and two children, each with a handler and
\* a middleware of its own, has been mounted: the children's middlewares
\* were chained, one after the other, into the same place of one array.
C2_Witness ==
    /\ Returned
    /\ Len(nodes[last.recv].Middlewares) = 5
    /\ \E a, b \in Range(nodes[last.recv].Routes) :
          /\ a # b
          /\ nodes[a].Handler # nil /\ nodes[a].Middlewares # <<>>
          /\ nodes[b].Handler # nil /\ nodes[b].Middlewares # <<>>
    /\ Len(routers[last.ret]) >= 2

\* C8: MountAndWalk with a nil walk function panics and has done nothing:
\* no router was created, nothing was registered, no route was visited.
C8_NilWalkFnPanicsFirst ==
    [][(last'.op = "MountAndWalk" /\ last'.args = <<nil>>)
          => /\ last'.panicked
             /\ routers' = routers
             /\ events' = events
             /\ seen' = seen
             /\ heap' = heap
             /\ nodes' = nodes]_vars

\* MountAndWalk(nil) was called on a route with a child that has a handler.
C8_Witness ==
    /\ last.op = "MountAndWalk" /\ last.args = <<nil>> /\ last.panicked
    /\ \E c \in Range(nodes[last.recv].Routes) : nodes[c].Handler # nil

---------------------------------------------------------------------------
(* Claims on SpecPaths *)

\* C3: each registration's path is the path segments of the routes from the
\* mounted root down to the registered route, written one after the other
\* with nothing between them and nothing changed: the pattern is the
\* route's method, a space, and that string.
C3_PathIsLiteralConcat ==
    Returned =>
        \A i \in 1..Len(Handled) :
            LET n == Handled[i][2]
            IN  routers[last.ret][i].pattern
                    = nodes[n].Method \o " " \o PathTo(last.recv, n)

\* "/api" with "foo" under it was registered as "/apifoo".
C3_Witness ==
    /\ Returned
    /\ \E i \in 1..Len(routers[last.ret]) :
          routers[last.ret][i].pattern = "GET /apifoo"

\* C4: a mount registers each route of the mounted tree that has a handler
\* exactly once, under its method, a space and its chained path, and
\* registers no route that has none, whether or not it has children;
\* nothing else is in the router.
C4_OneEntryPerHandler ==
    Returned =>
        /\ Len(routers[last.ret]) = Len(Handled)
        /\ \A i, j \in 1..Len(Handled) :
              Handled[i][2] = Handled[j][2] => i = j
        /\ {Handled[i][2] : i \in 1..Len(Handled)}
              = {n \in Ids : IsUnder(last.recv, n) /\ nodes[n].Handler # nil}
        /\ \A i \in 1..Len(Handled) :
              LET n == Handled[i][2]
              IN  /\ routers[last.ret][i].pattern
                        = nodes[n].Method \o " " \o PathTo(last.recv, n)
                  /\ routers[last.ret][i].handler[Len(routers[last.ret][i].handler)]
                        = <<"h", nodes[n].Handler>>

\* A root without a handler, with a child built by Get(nil) and a child
\* that has a handler, was mounted: one registration.
C4_Witness ==
    /\ Returned
    /\ nodes[last.recv].Handler = nil
    /\ \E a, b \in Range(nodes[last.recv].Routes) :
          /\ nodes[a].Handler = nil /\ nodes[a].Method = "GET"
          /\ nodes[b].Handler # nil
    /\ Len(routers[last.ret]) = 1

\* C5 as claimed: a route with the empty method is registered under its
\* chained path alone.
C5_BarePathPattern ==
    Returned =>
        \A i \in 1..Len(Handled) :
            LET n == Handled[i][2]
            IN  nodes[n].Method = ""
                    => routers[last.ret][i].pattern = PathTo(last.recv, n)

\* C5, amended: a route with the empty method is registered under a space
\* followed by its chained path: the separator is written, with no method
\* before it.
C5_SpaceThenPath ==
    Returned =>
        \A i \in 1..Len(Handled) :
            LET n == Handled[i][2]
            IN  nodes[n].Method = ""
                    => routers[last.ret][i].pattern
                           = " " \o PathTo(last.recv, n)

\* An any-method route under "/api" was registered.
C5_Witness ==
    /\ Returned
    /\ \E i \in 1..Len(Handled) :
          /\ nodes[Handled[i][2]].Method = ""
          /\ routers[last.ret][i].pattern = " /api"

---------------------------------------------------------------------------
(* Claims on SpecBuild *)

\* C6: a Use call with a nil among its arguments, wherever it stands,
\* panics and leaves every route as it was: no middleware of the call is
\* in any list.
C6_NilUseRejectedWhole ==
    [][(last'.op = "Use" /\ HasNil(last'.args))
          => /\ last'.panicked
             /\ nodes' = nodes]_vars

\* Use(valid, nil) was called on a route that already had middlewares.
C6_Witness ==
    /\ last.op = "Use" /\ last.panicked
    /\ Len(last.args) = 2 /\ last.args[1] # nil /\ last.args[2] = nil
    /\ nodes[last.recv].Middlewares # <<>>

\* C7: an Add call with a nil among its arguments, wherever it stands,
\* panics and leaves every route as it was: no child of the call is
\* attached.
C7_NilAddRejectedWhole ==
    [][(last'.op = "Add" /\ HasNil(last'.args))
          => /\ last'.panicked
             /\ nodes' = nodes]_vars

\* Add(valid, nil) was called on a route that already had a child.
C7_Witness ==
    /\ last.op = "Add" /\ last.panicked
    /\ Len(last.args) = 2 /\ last.args[1] # nil /\ last.args[2] = nil
    /\ nodes[last.recv].Routes # <<>>

\* C9: a Use or Add call that returns, returns its receiver; the receiver's
\* list is what it was with the arguments after it, in the order given, and
\* nothing else of any route changes; and in every step each list of each
\* route keeps what it had, in place, at its front.
C9_ReturnsReceiverAppendsOnly ==
    [][/\ (last'.op = "Use" /\ ~last'.panicked)
            => /\ last'.ret = last'.recv
               /\ nodes' = [nodes EXCEPT
                               ![last'.recv].Middlewares = @ \o last'.args]
       /\ (last'.op = "Add" /\ ~last'.panicked)
            => /\ last'.ret = last'.recv
               /\ nodes' = [nodes EXCEPT
                               ![last'.recv].Routes = @ \o last'.args]
       /\ \A n \in Ids :
            /\ IsPrefix(nodes[n].Middlewares, nodes'[n].Middlewares)
            /\ IsPrefix(nodes[n].Routes, nodes'[n].Routes)]_vars

\* A Use call added middlewares to a route that had some and has children.
C9_Witness ==
    /\ last.op = "Use" /\ ~last.panicked /\ last.args # <<>>
    /\ Len(nodes[last.recv].Middlewares) > Len(last.args)
    /\ nodes[last.recv].Routes # <<>>

---------------------------------------------------------------------------
(* Claims on SpecRemount *)

\* The router the most recent Mount returned holds the tree as it stands:
\* one registration for each route with a handler under the mounted root,
\* each under the route's method and chained path, each running the
\* middlewares from the root down to the route and then the handler.
RouterHoldsTree ==
    Returned =>
        /\ Len(routers[last.ret]) = Len(Handled)
        /\ {Handled[i][2] : i \in 1..Len(Handled)}
              = {n \in Ids : IsUnder(last.recv, n) /\ nodes[n].Handler # nil}
        /\ \A i \in 1..Len(Handled) :
              LET n == Handled[i][2]
              IN  /\ routers[last.ret][i].pattern
                        = nodes[n].Method \o " " \o PathTo(last.recv, n)
                  /\ routers[last.ret][i].handler
                        = Ran(PathMws(last.recv, n), nodes[n].Handler)

\* C10: a router that has been returned stays as it was returned whatever
\* is called afterwards, Use and Add on any route of its tree included: no
\* registration is added, dropped or changed, and none runs other
\* middlewares than before; and the router a later Mount returns holds the
\* tree as it stands at that call.
C10_ReturnedRouterIsSnapshot ==
    [][/\ \A i \in 1..Len(routers) :
            /\ i <= Len(routers')
            /\ routers'[i] = routers[i]
       /\ (last'.op = "Mount" /\ Len(routers') > Len(routers))
            => RouterHoldsTree']_vars

\* The same root was mounted twice, with a handler under it the first
\* time, and the second router differs from the first.
C10_Witness ==
    /\ Len(routers) = 2
    /\ routers[1] # <<>>
    /\ routers[2] # routers[1]
    /\ last.op = "Mount" /\ ~last.panicked

---------------------------------------------------------------------------
(* Claims on SpecFrame *)

\* C11: a Mount call, and a MountAndWalk call whose walk function writes to
\* no Route, leaves every Route as it was: path, middlewares, children,
\* handler and method of each, whatever the shape of the tree and the
\* lengths of the middleware lists.
C11_MountLeavesTreeAlone ==
    [][(last' # last /\ last'.op \in {"Mount", "MountAndWalk"})
          => nodes' = nodes]_vars

\* A root with five middlewares and a child with one of its own was handed
\* to MountAndWalk with the Lister, whose append then had room to write.
C11_Witness ==
    /\ Returned
    /\ last.args = <<Lister>>
    /\ Len(nodes[last.recv].Middlewares) = 5
    /\ \E c \in Range(nodes[last.recv].Routes) : nodes[c].Middlewares # <<>>

---------------------------------------------------------------------------
(* Claims on SpecChain: the walk function *)

\* The routes of the tree under root.
NodesUnder(root) == {n \in Ids : IsUnder(root, n)}

\* C12: MountAndWalk calls the walk function exactly once for each route of
\* the mounted tree, a route with neither handler nor children included;
\* for the root with the empty path and no middleware, for any other route
\* with the path and the middlewares chained from the root down to its
\* parent: its own path segment and its own middlewares are not in them.
C12_WalkFnOncePerNodeParentValues ==
    (Returned /\ last.args = <<Walker>>) =>
        /\ Len(seen) = Cardinality(NodesUnder(last.recv))
        /\ {seen[i].route : i \in 1..Len(seen)} = NodesUnder(last.recv)
        /\ \A i \in 1..Len(seen) :
              LET n == seen[i].route
              IN  IF n = last.recv
                  THEN seen[i].path = "" /\ seen[i].held = <<>>
                  ELSE /\ seen[i].path = PathTo(last.recv, ParentOf(n))
                       /\ seen[i].held = PathMws(last.recv, ParentOf(n))

\* The walk function was called for a route without handler and without
\* children, which has a path segment and a middleware of its own, under a
\* root that has a path segment and a middleware.
C12_Witness ==
    /\ Returned /\ last.args = <<Walker>>
    /\ \E i \in 1..Len(seen) :
          LET n == seen[i].route
          IN  /\ nodes[n].Handler = nil /\ nodes[n].Routes = <<>>
              /\ nodes[n].Path # "" /\ nodes[n].Middlewares # <<>>
              /\ seen[i].path = "/api" /\ Len(seen[i].held) = 1

\* C15: the traversal is pre-order and left to right.  Of the steps of one
\* Mount or MountAndWalk: the walk function's call for a route comes before
\* the route's registration; every step for a route comes before every
\* step for a route below it; and every step in the subtree of a child
\* comes before every step in the subtree of any child after it in the
\* child list.
C15_PreOrderLeftToRight ==
    Returned =>
        \A i, j \in 1..Len(events) :
            LET a == events[i][2]
                b == events[j][2]
            IN  /\ (a = b /\ events[i][1] = "visit" /\ events[j][1] # "visit")
                      => i < j
                /\ (a = b /\ events[i][1] = "walk" /\ events[j][1] = "handle")
                      => i < j
                /\ (a # b /\ IsUnder(a, b)) => i < j
                /\ \A p \in Ids : \A k, l \in 1..Len(nodes[p].Routes) :
                      (/\ k < l
                       /\ IsUnder(nodes[p].Routes[k], a)
                       /\ IsUnder(nodes[p].Routes[l], b)) => i < j

\* MountAndWalk returned for a root with two children with handlers, the
\* first of them with a child that has a handler.
C15_Witness ==
    /\ Returned /\ last.args = <<Walker>>
    /\ Len(nodes[last.recv].Routes) = 2
    /\ nodes[nodes[last.recv].Routes[1]].Routes # <<>>
    /\ Len(Handled) = 3
    /\ Len(events) = 11

---------------------------------------------------------------------------
(* Claims on SpecWalk *)

\* This step is a call of op that returned.
Did(op) == last' # last /\ last'.op = op /\ ~last'.panicked

\* C13: MountAndWalk, whatever walk function it is given that writes to no
\* Route, registers what Mount registers on the same tree: of two calls
\* one after the other on the same root, one of each kind, the second
\* returns a router with the same patterns in the same order, each with a
\* handler that runs the same middlewares and the same handler function.
C13_WalkRegistersWhatMountDoes ==
    [][(/\ ~last.panicked /\ last.op \in {"Mount", "MountAndWalk"}
        /\ (Did("Mount") \/ Did("MountAndWalk"))
        /\ last'.op # last.op
        /\ last'.recv = last.recv)
          => routers'[last'.ret] = routers[last.ret]]_vars

---------------------------------------------------------------------------
(* Claims on SpecConstructors *)

\* The method token of each per-method constructor.
MethodToken(op) ==
    CASE op = "Get" -> "GET"
      [] op = "Head" -> "HEAD"
      [] op = "Post" -> "POST"
      [] op = "Put" -> "PUT"
      [] op = "Patch" -> "PATCH"
      [] op = "Delete" -> "DELETE"
      [] op = "Connect" -> "CONNECT"
      [] op = "Options" -> "OPTIONS"
      [] op = "Trace" -> "TRACE"
      [] op = "All" -> ""

\* C14: NewRoute(path) returns a new route with that path, no middleware, no
\* child, no handler and the empty method; each of Get, Head, Post, Put,
\* Patch, Delete, Connect, Options, Trace and All returns a new route with
\* the empty path, no middleware, no child, the handler it was given, nil
\* included, and its own method token, All's being the empty one; none
\* panics.
C14_ConstructorsBuildAsGiven ==
    last.op # "none" =>
        /\ ~last.panicked
        /\ last.ret = Len(nodes)
        /\ nodes[last.ret] =
              IF last.op = "NewRoute"
              THEN [Path |-> last.args[1], Middlewares |-> <<>>,
                    Routes |-> <<>>, Handler |-> nil, Method |-> ""]
              ELSE [Path |-> "", Middlewares |-> <<>>, Routes |-> <<>>,
                    Handler |-> last.args[1],
                    Method |-> MethodToken(last.op)]

\* Head(nil) was called after NewRoute("/api").
C14_Witness ==
    /\ last.op = "Head" /\ last.args = <<nil>>
    /\ Len(nodes) = 2 /\ nodes[1].Path = "/api"

---------------------------------------------------------------------------
(* Claims on SpecGraph *)

\* The routes reached from those of set s in at most k steps down.
RECURSIVE ReachN(_, _)
ReachN(s, k) ==
    IF k = 0 THEN s
    ELSE ReachN(s \cup UNION {Range(nodes[p].Routes) : p \in s}, k - 1)

Reach(root) == ReachN({root}, Len(nodes))

\* The places, among the child lists of the routes of set s, where c stands.
PlacesOf(c, s) ==
    {pi \in UNION {{<<p, i>> : i \in 1..Len(nodes[p].Routes)} : p \in s} :
        nodes[pi[1]].Routes[pi[2]] = c}

\* What is reached from root is a tree: root is nobody's child there, and
\* every other route stands in one child list, once.
IsTree(root) ==
    \A c \in Reach(root) :
        Cardinality(PlacesOf(c, Reach(root))) = IF c = root THEN 0 ELSE 1

IsVisit(e) == e[1] = "visit"

\* The routes the most recent traversal entered, in order.
Visited == SelectSeq(events, IsVisit)

\* The most recent traversal ended (its recursion did not run away), and
\* it entered no route more than once.
MountEndedEachNodeOnce ==
    /\ ~last.panicked
    /\ \A i, j \in 1..Len(Visited) : Visited[i][2] = Visited[j][2] => i = j

\* C16 as claimed: whatever constructor and Add calls built, a Mount call
\* ends, and it has entered no route more than once.
C16_MountEndsEachNodeOnce ==
    last.op = "Mount" => MountEndedEachNodeOnce

\* C16, amended: when what is reached from the mounted route is a tree (no
\* route was added to itself or below itself, none was added twice), the
\* Mount call ends, and it has entered no route more than once.
C16_TreeMountEndsEachNodeOnce ==
    (last.op = "Mount" /\ IsTree(last.recv)) => MountEndedEachNodeOnce

\* A tree of three routes was mounted.
C16_Witness ==
    /\ last.op = "Mount" /\ IsTree(last.recv)
    /\ Cardinality(Reach(last.recv)) = 3
    /\ Len(Visited) = 3

---------------------------------------------------------------------------
(* Claims on SpecShared *)

\* C17: a middleware list the walk function was handed and kept shows,
\* while the traversal goes on to later siblings and after MountAndWalk
\* has returned, the elements it showed during the call, in that order.
C17_HandedListsStayAsHanded ==
    \A i \in 1..Len(seen) :
        Elems(heap, seen[i].middlewares) = seen[i].held

====
